---- MODULE Spec2Model ----
(***************************************************************************)
(* The target-selection and forwarding engine of the load balancer:        *)
(* LoadBalancer (load_balancer.py) over TargetGroup (target_group.py).     *)
(*                                                                         *)
(* Spec, SelectSpec, ForwardSpec : calls run one after another, each call  *)
(*            one atomic action.                                           *)
(* ConcSelectSpec, ConcForwardSpec : request threads whose calls           *)
(*            interleave statement by statement (the code takes no lock).  *)
(* ParseSpec, WeightSpec : the TargetGroup constructor on bounded spec     *)
(*            strings, and the calls on the object it builds.              *)
(* HeaderSpec : the header copy of forward_request.                        *)
(***************************************************************************)
EXTENDS Integers, Sequences, FiniteSets, TLC

\* ------------------------------------------------------------------ bounds

\* Longest run of consecutive ROUND_ROBIN calls on one group that the history
\* variable streak follows; a longer run is no longer followed.
MaxStreak == 4

\* Most headers of an inbound request of HeaderSpec.
MaxHeaders == 2

\* Longest spec string of which every text is tried.
MaxSpecLen == 4

\* Largest weight of a hostname.
MaxWeight == 3

\* ------------------------------------------------------------ Python values

\* Python's None: the none-marker select_target returns.
None == [none |-> TRUE]

\* A dict with no key.
EmptyDict == [k \in {} |-> 0]

\* key in d
DictHas(d, k) == k \in DOMAIN d

\* d[k] = v
DictSet(d, k, v) == [x \in (DOMAIN d) \cup {k} |-> IF x = k THEN v ELSE d[x]]

\* What a call hands back: a returned value, or an exception that left it.
Return(v) == [outcome |-> "returned", value |-> v]

Raise(exc) == [outcome |-> "raised", value |-> [exception |-> exc]]

\* -------------------------------------------------------------------- text
\* A str is the tuple of its characters.

\* The characters str.strip() and int() drop at both ends.
Whitespace == {" ", "\t", "\n", "\r"}

Digits == <<"0", "1", "2", "3", "4", "5", "6", "7", "8", "9">>

IsDigit(c) == \E d \in 1..Len(Digits) : Digits[d] = c

DigitValue(c) == (CHOOSE d \in 1..Len(Digits) : Digits[d] = c) - 1

\* sep in s
Contains(s, sep) == \E i \in 1..Len(s) : s[i] = sep

\* s.find(sep), counted from 1: the first place of sep in s.
find(s, sep) ==
    CHOOSE i \in 1..Len(s) : s[i] = sep /\ \A j \in 1..(i - 1) : s[j] # sep

\* s.rfind(sep), counted from 1: the last place of sep in s.
rfind(s, sep) ==
    CHOOSE i \in 1..Len(s) : s[i] = sep /\ \A j \in (i + 1)..Len(s) : s[j] # sep

\* s.split(sep)
RECURSIVE split(_, _)
split(s, sep) ==
    IF ~Contains(s, sep) THEN <<s>>
    ELSE <<SubSeq(s, 1, find(s, sep) - 1)>>
         \o split(SubSeq(s, find(s, sep) + 1, Len(s)), sep)

\* s.split(sep, 1) of an s that holds sep: the cut is at the first sep.
split_once(s, sep) ==
    <<SubSeq(s, 1, find(s, sep) - 1), SubSeq(s, find(s, sep) + 1, Len(s))>>

\* rsplit_once cutting at the first sep, as split does.
rsplit_at_first(s, sep) == split_once(s, sep)

\* s.rsplit(sep, 1) of an s that holds sep: the cut is at the last sep.
rsplit_once(s, sep) ==
    <<SubSeq(s, 1, rfind(s, sep) - 1), SubSeq(s, rfind(s, sep) + 1, Len(s))>>

\* s.strip()
strip(s) ==
    LET kept == {i \in 1..Len(s) : s[i] \notin Whitespace}
    IN  IF kept = {} THEN <<>>
        ELSE SubSeq(s, CHOOSE i \in kept : \A j \in kept : i <= j,
                       CHOOSE i \in kept : \A j \in kept : j <= i)

\* The value of a run of digits in the base given; an underscore between two
\* digits counts for nothing.
RECURSIVE radix(_, _)
radix(digits, base) ==
    IF digits = <<>> THEN 0
    ELSE LET front == SubSeq(digits, 1, Len(digits) - 1)
             c == digits[Len(digits)]
         IN  IF c = "_" THEN radix(front, base)
             ELSE base * radix(front, base) + DigitValue(c)

\* int(text) of a str: white space around it is dropped, one sign may lead,
\* the rest is decimal digits with single underscores between them; any
\* other text raises ValueError.
int(text) ==
    LET t == strip(text)
        body == IF t # <<>> /\ t[1] \in {"+", "-"} THEN Tail(t) ELSE t
        valid == /\ body # <<>>
                 /\ \A i \in 1..Len(body) :
                       \/ IsDigit(body[i])
                       \/ /\ body[i] = "_"
                          /\ 1 < i /\ i < Len(body)
                          /\ IsDigit(body[i - 1]) /\ IsDigit(body[i + 1])
    IN  IF ~valid THEN Raise("ValueError")
        ELSE IF t[1] = "-" THEN Return(0 - radix(body, 10))
        ELSE Return(radix(body, 10))

\* ------------------------------------------------------------------ resolver

\* The texts of the addresses, names and paths of the deployment.
IP_10_0_0_1 == <<"1", "0", ".", "0", ".", "0", ".", "1">>

IP_10_0_0_2 == <<"1", "0", ".", "0", ".", "0", ".", "2">>

IP_10_0_0_3 == <<"1", "0", ".", "0", ".", "0", ".", "3">>

HOST_api_local == <<"a", "p", "i", ".", "l", "o", "c", "a", "l">>

HOST_web_local == <<"w", "e", "b", ".", "l", "o", "c", "a", "l">>

HOST_a == <<"a">>

URI_svc == <<"/", "s", "v", "c">>

URI_root == <<"/">>

\* What the resolver knows: the IPv4 addresses of each name, in its order.
\* Every other name is unknown to it.
DnsRecords ==
    [hostname \in {HOST_api_local, HOST_web_local, HOST_a} |->
        CASE hostname = HOST_api_local -> <<IP_10_0_0_1, IP_10_0_0_2>>
          [] hostname = HOST_web_local -> <<IP_10_0_0_3>>
          [] hostname = HOST_a -> <<IP_10_0_0_1, IP_10_0_0_2>>]

\* One number of a dotted address as inet_aton reads it: decimal digits, or
\* octal digits after a leading 0.
aton_number(part) ==
    IF part = <<>> \/ \E i \in 1..Len(part) : ~IsDigit(part[i])
    THEN Raise("OSError")
    ELSE IF Len(part) > 1 /\ part[1] = "0"
    THEN IF \E i \in 1..Len(part) : DigitValue(part[i]) > 7
         THEN Raise("OSError") ELSE Return(radix(part, 8))
    ELSE Return(radix(part, 10))

\* socket.inet_aton(hostname) accepts the text (line 97): one to four
\* numbers joined by dots, each but the last at most 255 and the last filling
\* the bytes that are left; text after a white space is not read.
inet_aton(hostname) ==
    LET blanks == {i \in 1..Len(hostname) : hostname[i] \in Whitespace}
        head == IF blanks = {} THEN hostname
                ELSE SubSeq(hostname, 1,
                            (CHOOSE i \in blanks : \A j \in blanks : i <= j) - 1)
        numbers == [i \in 1..Len(split(head, ".")) |->
                       aton_number(split(head, ".")[i])]
        n == Len(numbers)
    IN  /\ n <= 4
        /\ \A i \in 1..n : numbers[i].outcome = "returned"
        /\ \A i \in 1..(n - 1) : numbers[i].value <= 255
        /\ numbers[n].value \div (256 ^ (4 - n)) <= 255

\* socket.getaddrinfo(hostname, None, socket.AF_INET), line 103: the name is
\* first encoded for the resolver, and a name with an empty label before its
\* end or a label of more than 63 characters raises UnicodeError there; a
\* name the resolver does not know raises socket.gaierror; a known name gives
\* an entry per address and socket type.
getaddrinfo(hostname) ==
    LET labels == split(hostname, ".")
        n == Len(labels)
    IN  IF /\ hostname # <<>>
           /\ \E i \in 1..n : \/ Len(labels[i]) > 63
                              \/ labels[i] = <<>> /\ ~(i = n /\ n > 1)
        THEN Raise("UnicodeError")
        ELSE IF hostname \notin DOMAIN DnsRecords THEN Raise("gaierror")
        ELSE Return([i \in 1..(3 * Len(DnsRecords[hostname])) |->
                        DnsRecords[hostname][((i - 1) \div 3) + 1]])

\* Lines 105-110: the addresses of the entries, each once, in the order met.
RECURSIVE unique_ips(_, _)
unique_ips(addr_info, ips) ==
    IF addr_info = <<>> THEN ips
    ELSE IF \E i \in 1..Len(ips) : ips[i] = Head(addr_info)
    THEN unique_ips(Tail(addr_info), ips)
    ELSE unique_ips(Tail(addr_info), Append(ips, Head(addr_info)))

\* TargetGroup._resolve_dns: the addresses of the hostname; socket.gaierror
\* is the one exception of the look-up it handles.
_resolve_dns(hostname) ==
    IF inet_aton(hostname) THEN Return(<<hostname>>)
    ELSE LET answer == getaddrinfo(hostname)
         IN  IF answer.outcome = "returned"
             THEN Return(unique_ips(answer.value, <<>>))
             ELSE IF answer.value.exception = "gaierror" THEN Return(<<>>)
             ELSE answer

\* ------------------------------------------------------------ target groups

\* Target(ip, port, base_uri, hostname=hostname)
Target(ip, port, base_uri, hostname) ==
    [ip |-> ip, port |-> port, base_uri |-> base_uri, hostname |-> hostname]

\* The Targets of "api.local:8080/svc,10.0.0.1:8080/" with api.local resolving
\* to 10.0.0.1 and 10.0.0.2, and of "web.local" resolving to 10.0.0.3.
ApiA == Target(IP_10_0_0_1, 8080, URI_svc, HOST_api_local)

ApiB == Target(IP_10_0_0_2, 8080, URI_svc, HOST_api_local)

ApiC == Target(IP_10_0_0_1, 8080, URI_root, IP_10_0_0_1)

WebA == Target(IP_10_0_0_3, 80, URI_root, HOST_web_local)

AllTargets == {ApiA, ApiB, ApiC, WebA}

\* Lines 51-71 on one non-empty spec: hostname, port and base_uri, or the
\* ValueError of int(port_str) that makes the loop skip the spec.
parse_entry(spec) ==
    LET slashed == Contains(spec, "/")
        parts == IF slashed THEN split_once(spec, "/") ELSE <<spec, <<>>>>
        address_part == parts[1]
        base_uri == IF slashed /\ parts[2] # <<>>
                    THEN <<"/">> \o parts[2] ELSE <<"/">>
        coloned == Contains(address_part, ":")
        hostname == IF coloned THEN rsplit_once(address_part, ":")[1]
                    ELSE address_part
        port == IF coloned THEN int(rsplit_once(address_part, ":")[2])
                ELSE Return(80)
    IN  IF port.outcome = "raised" THEN port
        ELSE Return([hostname |-> hostname, port |-> port.value,
                     base_uri |-> base_uri])

\* Line 45: target_specs, the comma-separated pieces, each stripped.
target_specs_of(targets_str) ==
    [i \in 1..Len(split(targets_str, ",")) |-> strip(split(targets_str, ",")[i])]

\* Lines 47-71: the (hostname, port, base_uri) of the specs the loop takes to
\* the DNS look-up, in their order.
RECURSIVE entries_of(_)
entries_of(target_specs) ==
    IF target_specs = <<>> THEN <<>>
    ELSE IF Head(target_specs) = <<>> THEN entries_of(Tail(target_specs))
    ELSE IF parse_entry(Head(target_specs)).outcome = "raised"
    THEN entries_of(Tail(target_specs))
    ELSE <<parse_entry(Head(target_specs)).value>>
         \o entries_of(Tail(target_specs))

logical_entries(targets_str) ==
    IF targets_str = <<>> THEN <<>> ELSE entries_of(target_specs_of(targets_str))

\* Lines 73-79: a Target per address of the entry, or the exception that left
\* _resolve_dns.
targets_of_entry(entry) ==
    LET ips == _resolve_dns(entry.hostname)
    IN  IF ips.outcome = "raised" THEN ips
        ELSE Return([i \in 1..Len(ips.value) |->
                        Target(ips.value[i], entry.port, entry.base_uri,
                               entry.hostname)])

\* Lines 47-79: the loop over the entries, appending to targets.
RECURSIVE extend_targets(_, _)
extend_targets(entries, targets) ==
    IF entries = <<>> THEN Return(targets)
    ELSE LET more == targets_of_entry(Head(entries))
         IN  IF more.outcome = "raised" THEN more
             ELSE extend_targets(Tail(entries), targets \o more.value)

\* TargetGroup._parse_targets
_parse_targets(targets_str) ==
    extend_targets(logical_entries(targets_str), <<>>)

\* Lines 22-26: the object with its targets parsed; weights is the dict
\* handed in, or None.
TargetGroup(name, targets, weights) ==
    [name |-> name,
     weights |-> IF weights = None THEN EmptyDict ELSE weights,
     _weights_provided |-> weights # None,
     targets |-> targets]

\* TargetGroup(name, targets_str, weights): the object, or the exception that
\* left the constructor.
TargetGroup_new(name, targets_str, weights) ==
    LET parsed == _parse_targets(targets_str)
    IN  IF parsed.outcome = "raised" THEN parsed
        ELSE Return(TargetGroup(name, parsed.value, weights))

\* The TargetGroup objects of the process. g1 and g2 carry the same name with
\* different numbers of targets (a group built again after its DNS answer
\* changed); g4 has no target.  g1 is weighted, g3 has a weights map that
\* names no host, g2 and g4 were built without weights.
GroupIds == {"g1", "g2", "g3", "g4"}

NoGroup == "-"

InitialGroups ==
    [g \in GroupIds |->
        CASE g = "g1" -> TargetGroup("api", <<ApiA, ApiB, ApiC>>,
                                     DictSet(EmptyDict, HOST_api_local, 2))
          [] g = "g2" -> TargetGroup("api", <<ApiA, ApiB>>, None)
          [] g = "g3" -> TargetGroup("web", <<WebA>>, EmptyDict)
          [] g = "g4" -> TargetGroup("idle", <<>>, None)]

GroupNames == {InitialGroups[g].name : g \in GroupIds}

\* TargetGroup.get_targets
get_targets(tg) == tg.targets

\* get_weight answering 0 for a hostname the map does not name.
get_weight_absent_zero(tg, hostname) ==
    IF DictHas(tg.weights, hostname) THEN tg.weights[hostname] ELSE 0

\* TargetGroup.get_weight: self.weights.get(hostname, 1)
get_weight(tg, hostname) ==
    IF DictHas(tg.weights, hostname) THEN tg.weights[hostname] ELSE 1

\* Line 149: target.hostname or target.ip
hostname_key(target) ==
    IF target.hostname = <<>> THEN target.ip ELSE target.hostname

\* Lines 148-152: the keys of hostname_targets, in the order a dict keeps
\* them, which is the order they were first put in.
RECURSIVE hostname_keys(_, _)
hostname_keys(targets, keys) ==
    IF targets = <<>> THEN keys
    ELSE IF \E i \in 1..Len(keys) : keys[i] = hostname_key(Head(targets))
    THEN hostname_keys(Tail(targets), keys)
    ELSE hostname_keys(Tail(targets), Append(keys, hostname_key(Head(targets))))

\* Lines 148-152: hostname_targets[hostname]
RECURSIVE hostname_targets(_, _)
hostname_targets(targets, hostname) ==
    IF targets = <<>> THEN <<>>
    ELSE IF hostname_key(Head(targets)) = hostname
    THEN <<Head(targets)>> \o hostname_targets(Tail(targets), hostname)
    ELSE hostname_targets(Tail(targets), hostname)

\* Lines 158-159: for _ in range(weight): weighted_list.extend(targets)
RECURSIVE extend_weight_times(_, _, _)
extend_weight_times(weighted_list, targets, weight) ==
    IF weight <= 0 THEN weighted_list
    ELSE extend_weight_times(weighted_list \o targets, targets, weight - 1)

\* Lines 155-159: the loop over hostname_targets.items()
RECURSIVE extend_by_hostnames(_, _, _)
extend_by_hostnames(weighted_list, tg, keys) ==
    IF keys = <<>> THEN weighted_list
    ELSE extend_by_hostnames(
             extend_weight_times(weighted_list,
                                 hostname_targets(tg.targets, Head(keys)),
                                 get_weight(tg, Head(keys))),
             tg, Tail(keys))

\* get_weighted_target_list telling "no weights" by the map being empty.
get_weighted_target_list_by_emptiness(tg) ==
    IF tg.weights = EmptyDict
    THEN [value |-> <<>>, targets |-> tg.targets]
    ELSE [value |-> extend_by_hostnames(<<>>, tg, hostname_keys(tg.targets, <<>>)),
          targets |-> tg.targets]

\* get_weighted_target_list with weighted_list bound to self.targets instead
\* of a new list.
get_weighted_target_list_in_place(tg) ==
    IF ~tg._weights_provided
    THEN [value |-> <<>>, targets |-> tg.targets]
    ELSE [value |-> extend_by_hostnames(tg.targets, tg,
                                        hostname_keys(tg.targets, <<>>)),
          targets |-> extend_by_hostnames(tg.targets, tg,
                                          hostname_keys(tg.targets, <<>>))]

\* TargetGroup.get_weighted_target_list: the list it returns, and self.targets
\* as the call leaves it.
get_weighted_target_list(tg) ==
    IF ~tg._weights_provided
    THEN [value |-> <<>>, targets |-> tg.targets]
    ELSE [value |-> extend_by_hostnames(<<>>, tg, hostname_keys(tg.targets, <<>>)),
          targets |-> tg.targets]

\* ------------------------------------------------------------ configuration

\* What config.get_load_balancing_algorithm() may hand back: the four names
\* the dispatch knows, a name it does not know, and no value at all.
Recognized == {"ROUND_ROBIN", "WEIGHTED", "STICKY", "LRT"}

AbsentAlgorithm == "<absent>"

Algorithms == Recognized \cup {"weighted", AbsentAlgorithm}

\* ------------------------------------------------------------------- state

VARIABLES
    groups,                 \* the TargetGroup objects, by object
    round_robin_counters,   \* LoadBalancer.round_robin_counters: name -> index
    _sessions,              \* LoadBalancer._sessions: "ip:port" -> Session
    selected,               \* the latest select_target call, whether its name
                            \*   had a counter before it, the index and the
                            \*   count of that name before it, and what it gave
    forwarded,              \* the latest forward_request call and what it gave
    streak,                 \* history: per name, the run of ROUND_ROBIN calls
    last_count,             \* history: per name, len(targets) of the latest
                            \*   round-robin selection under that name
    created,                \* history: number of requests.Session() made
    issued,                 \* history: keys an outbound request was sent to
    reference_counters,     \* round_robin_counters of the reference balancer
    reference_selected,     \* what the reference balancer's latest call gave
    called,                 \* the latest TargetGroup call and what it gave
    pc,                     \* per thread: the statement it is at
    frame                   \* per thread: the locals of its running call

vars == <<groups, round_robin_counters, _sessions, selected, forwarded, streak,
          last_count, created, issued, reference_counters, reference_selected,
          called, pc, frame>>

\* ------------------------------------------------- LoadBalancer: selection

\* _round_robin, lines 79-81: the counter of a never-seen name starts at 0.
rr_init(counters, group_name) ==
    IF DictHas(counters, group_name) THEN counters
    ELSE DictSet(counters, group_name, 0)

\* rr_pick indexing with the stored index as it is: targets[index].
rr_pick_unwrapped(targets, index) ==
    IF index >= Len(targets) THEN Raise("IndexError")
    ELSE Return(targets[index + 1])

\* _round_robin, line 87: targets[index % len(targets)]; Python raises
\* ZeroDivisionError on a modulo by zero.
rr_pick(targets, index) ==
    IF Len(targets) = 0 THEN Raise("ZeroDivisionError")
    ELSE Return(targets[(index % Len(targets)) + 1])

\* rr_next with the increment forgotten.
rr_next_stuck(targets, index) == index % Len(targets)

\* rr_next with the wrap-around forgotten.
rr_next_unwrapped(targets, index) == index + 1

\* _round_robin, line 90: the index of the next request.
rr_next(targets, index) == (index + 1) % Len(targets)

\* _round_robin writing the next index to the entry of every name.
_round_robin_all_names(counters, target_group, targets) ==
    LET group_name == target_group.name
        c1 == rr_init(counters, group_name)
        index == c1[group_name]
        picked == rr_pick(targets, index)
    IN  IF picked.outcome = "raised"
        THEN [outcome |-> "raised", value |-> picked.value, counters |-> c1]
        ELSE [outcome |-> "returned", value |-> picked.value,
              counters |-> [n \in DOMAIN c1 |-> rr_next(targets, index)]]

\* _round_robin as one call: the value it gives and the counters it leaves.
_round_robin(counters, target_group, targets) ==
    LET group_name == target_group.name
        c1 == rr_init(counters, group_name)
        index == c1[group_name]
        picked == rr_pick(targets, index)
    IN  IF picked.outcome = "raised"
        THEN [outcome |-> "raised", value |-> picked.value, counters |-> c1]
        ELSE [outcome |-> "returned", value |-> picked.value,
              counters |-> DictSet(c1, group_name, rr_next(targets, index))]

\* dispatch with WEIGHTED, STICKY and LRT sent to round robin as well.
dispatch_all_round_robin(counters, target_group, targets, algorithm) ==
    _round_robin(counters, target_group, targets)

\* dispatch with the first target as the default instead of round robin.
dispatch_default_first(counters, target_group, targets, algorithm) ==
    IF algorithm = "ROUND_ROBIN"
    THEN _round_robin(counters, target_group, targets)
    ELSE [outcome |-> "returned", counters |-> counters,
          value |-> IF Len(targets) > 0 THEN targets[1] ELSE None]

\* select_target, lines 49-64: the dispatch on the configured algorithm.
dispatch(counters, target_group, targets, algorithm) ==
    IF algorithm = "ROUND_ROBIN"
    THEN _round_robin(counters, target_group, targets)
    ELSE IF algorithm = "WEIGHTED"
    THEN [outcome |-> "returned", counters |-> counters,
          value |-> IF Len(targets) > 0 THEN targets[1] ELSE None]
    ELSE IF algorithm = "STICKY"
    THEN [outcome |-> "returned", counters |-> counters,
          value |-> IF Len(targets) > 0 THEN targets[1] ELSE None]
    ELSE IF algorithm = "LRT"
    THEN [outcome |-> "returned", counters |-> counters,
          value |-> IF Len(targets) > 0 THEN targets[1] ELSE None]
    ELSE _round_robin(counters, target_group, targets)

\* select_target with the test for an empty list left out.
select_target_unguarded(counters, target_group, algorithm) ==
    dispatch(counters, target_group, get_targets(target_group), algorithm)

\* select_target as one call.
select_target(counters, target_group, algorithm) ==
    LET targets == get_targets(target_group)
    IN  IF Len(targets) = 0
        THEN [outcome |-> "returned", value |-> None, counters |-> counters]
        ELSE dispatch(counters, target_group, targets, algorithm)

\* Whether select_target hands this call to _round_robin.
UsesRoundRobin(target_group, algorithm) ==
    /\ Len(get_targets(target_group)) > 0
    /\ algorithm \notin {"WEIGHTED", "STICKY", "LRT"}

\* ------------------------------------------------------------ header names

\* A header name is its characters in order, so that str.lower() is computed.
UpperLetters ==
    <<"A", "B", "C", "D", "E", "F", "G", "H", "I", "J", "K", "L", "M",
      "N", "O", "P", "Q", "R", "S", "T", "U", "V", "W", "X", "Y", "Z">>

LowerLetters ==
    <<"a", "b", "c", "d", "e", "f", "g", "h", "i", "j", "k", "l", "m",
      "n", "o", "p", "q", "r", "s", "t", "u", "v", "w", "x", "y", "z">>

\* str.lower() of one character.
lower_char(c) ==
    IF \E i \in 1..Len(UpperLetters) : UpperLetters[i] = c
    THEN LowerLetters[CHOOSE i \in 1..Len(UpperLetters) : UpperLetters[i] = c]
    ELSE c

\* key.lower() forgotten: the name as it came.
lower_forgotten(key) == key

\* key.lower()
lower(key) == [i \in 1..Len(key) |-> lower_char(key[i])]

\* HOP_BY_HOP_HEADERS = {'connection', 'keep-alive', 'transfer-encoding'}
HOP_BY_HOP_HEADERS ==
    { <<"c", "o", "n", "n", "e", "c", "t", "i", "o", "n">>,
      <<"k", "e", "e", "p", "-", "a", "l", "i", "v", "e">>,
      <<"t", "r", "a", "n", "s", "f", "e", "r", "-",
        "e", "n", "c", "o", "d", "i", "n", "g">> }

\* Inbound names in the casings a client may send.
H_Connection == <<"C", "o", "n", "n", "e", "c", "t", "i", "o", "n">>

H_CONNECTION == <<"C", "O", "N", "N", "E", "C", "T", "I", "O", "N">>

H_connection == <<"c", "o", "n", "n", "e", "c", "t", "i", "o", "n">>

H_KeepAlive == <<"K", "e", "e", "p", "-", "A", "l", "i", "v", "e">>

H_keepALIVE == <<"k", "e", "e", "p", "-", "A", "L", "I", "V", "E">>

H_TransferEncoding ==
    <<"T", "r", "a", "n", "s", "f", "e", "r", "-",
      "E", "n", "c", "o", "d", "i", "n", "g">>

H_TRANSFER_ENCODING ==
    <<"T", "R", "A", "N", "S", "F", "E", "R", "-",
      "E", "N", "C", "O", "D", "I", "N", "G">>

H_Host == <<"H", "o", "s", "t">>

H_Authorization ==
    <<"A", "u", "t", "h", "o", "r", "i", "z", "a", "t", "i", "o", "n">>

H_XConnection == <<"X", "-", "C", "o", "n", "n", "e", "c", "t", "i", "o", "n">>

H_KeepAlives == <<"K", "e", "e", "p", "-", "A", "l", "i", "v", "e", "s">>

\* The names of the above that are connection, keep-alive or
\* transfer-encoding in some casing, listed by hand.
HopByHopNames ==
    {H_Connection, H_CONNECTION, H_connection, H_KeepAlive, H_keepALIVE,
     H_TransferEncoding, H_TRANSFER_ENCODING}

EndToEndNames == {H_Host, H_Authorization, H_XConnection, H_KeepAlives}

HeaderNames == HopByHopNames \cup EndToEndNames

HeaderValues == {"v1", "v2"}

\* headers[key] = value on a dict kept as its items in insertion order.
ItemSet(items, key, value) ==
    IF \E i \in 1..Len(items) : items[i][1] = key
    THEN [i \in 1..Len(items) |->
            IF items[i][1] = key THEN <<key, value>> ELSE items[i]]
    ELSE Append(items, <<key, value>>)

\* forward_request, lines 139-142: the dict of the inbound headers whose
\* lower-cased name is no hop-by-hop name.
RECURSIVE copy_headers(_)
copy_headers(inbound) ==
    IF inbound = <<>> THEN <<>>
    ELSE LET before == copy_headers(SubSeq(inbound, 1, Len(inbound) - 1))
             key == inbound[Len(inbound)][1]
             value == inbound[Len(inbound)][2]
         IN  IF lower(key) \notin HOP_BY_HOP_HEADERS
             THEN ItemSet(before, key, value)
             ELSE before

\* ------------------------------------------------ LoadBalancer: forwarding

\* The classes an exception is an instance of (itself and its bases), for the
\* exceptions the statements of forward_request raise: those of requests
\* (ConnectTimeout derives from both ConnectionError and Timeout) and Python's.
ExceptionBases(exc) ==
    CASE exc = "ReadTimeout" ->
            {"ReadTimeout", "Timeout", "RequestException", "OSError", "Exception"}
      [] exc = "ConnectTimeout" ->
            {"ConnectTimeout", "ConnectionError", "Timeout",
             "RequestException", "OSError", "Exception"}
      [] exc = "ConnectionError" ->
            {"ConnectionError", "RequestException", "OSError", "Exception"}
      [] exc = "ContentDecodingError" ->
            {"ContentDecodingError", "RequestException", "OSError", "Exception"}
      [] exc = "UnicodeDecodeError" ->
            {"UnicodeDecodeError", "UnicodeError", "ValueError", "Exception"}
      [] OTHER -> {exc, "Exception"}

\* Where a forward can fail and with what: nowhere, or at one statement of
\* lines 135-170.
NoFault == [stage |-> "none", exc |-> "none"]

Faults ==
    { NoFault,
      [stage |-> "get_url", exc |-> "TypeError"],
      [stage |-> "headers", exc |-> "RuntimeError"],
      [stage |-> "get_data", exc |-> "ClientDisconnected"],
      [stage |-> "query_string", exc |-> "UnicodeDecodeError"],
      [stage |-> "get_session", exc |-> "RuntimeError"],
      [stage |-> "request", exc |-> "ReadTimeout"],
      [stage |-> "request", exc |-> "ConnectTimeout"],
      [stage |-> "request", exc |-> "ConnectionError"],
      [stage |-> "request", exc |-> "ContentDecodingError"],
      [stage |-> "response", exc |-> "ValueError"] }

\* Statements before _get_session is entered, and those of _get_session on.
EarlyStages == {"get_url", "headers", "get_data", "query_string"}

\* The status a backend answers with.
BackendStatuses == {200, 302, 503}

\* One forward's environment: the fault it meets and, when the outbound
\* request gets an answer, the backend's status.
Exchanges ==
    { [fault |-> f, backend_status |-> b] :
        f \in {x \in Faults : x.stage \in {"none", "response"}},
        b \in BackendStatuses }
    \cup { [fault |-> f] : f \in {x \in Faults : x.stage \notin {"none", "response"}} }

\* error_handler.handle_error(status_code, message): a response object.
handle_error(status_code, message) ==
    [status |-> status_code, body |-> message]

\* The except clauses with ConnectionError tested before Timeout.
ExceptClauses_connection_first ==
    << [catches |-> "ConnectionError", status |-> 502,
        message |-> "Connection error"],
       [catches |-> "Timeout", status |-> 504, message |-> "Request timeout"],
       [catches |-> "Exception", status |-> 502,
        message |-> "Error forwarding request: "] >>

\* The except clauses without the last, catch-all one.
ExceptClauses_no_catch_all ==
    << [catches |-> "Timeout", status |-> 504, message |-> "Request timeout"],
       [catches |-> "ConnectionError", status |-> 502,
        message |-> "Connection error"] >>

\* forward_request, lines 174-179: the except clauses, in order.
ExceptClauses ==
    << [catches |-> "Timeout", status |-> 504, message |-> "Request timeout"],
       [catches |-> "ConnectionError", status |-> 502,
        message |-> "Connection error"],
       [catches |-> "Exception", status |-> 502,
        message |-> "Error forwarding request: "] >>

\* The try statement's answer to an exception raised in its body: the first
\* clause the exception is an instance of handles it; with none, it escapes.
on_exception(exc) ==
    LET matching == {i \in 1..Len(ExceptClauses) :
                        ExceptClauses[i].catches \in ExceptionBases(exc)}
    IN  IF matching = {}
        THEN Raise(exc)
        ELSE LET first == CHOOSE i \in matching : \A j \in matching : i <= j
             IN  Return(handle_error(ExceptClauses[first].status,
                                     ExceptClauses[first].message))

\* f"{target.ip}:{target.port}": ip holds no ':' and port is an integer, so
\* the text is one-to-one with the pair.
host_port(target) == <<target.ip, target.port>>

\* requests.Session(): a new object, told apart by the number it was made as.
Session(n) == [id |-> n]

\* _get_session without the look-up: a new Session at every call.
_get_session_always_new(sessions, made, target) ==
    [session |-> Session(made + 1),
     sessions |-> DictSet(sessions, host_port(target), Session(made + 1)),
     made |-> made + 1]

\* _get_session: the session it returns, the cache and the number of
\* Session objects made so far.
_get_session(sessions, made, target) ==
    IF ~DictHas(sessions, host_port(target))
    THEN [session |-> Session(made + 1),
          sessions |-> DictSet(sessions, host_port(target), Session(made + 1)),
          made |-> made + 1]
    ELSE [session |-> sessions[host_port(target)],
          sessions |-> sessions, made |-> made]

\* forward_request as one call: the response (or escaped exception), the
\* outbound headers and session of the request it sent, and the cache it
\* leaves.
forward_request(sessions, made, target, inbound, exchange) ==
    LET fault == exchange.fault
        got == IF fault.stage \in EarlyStages \cup {"get_session"}
               THEN [session |-> None, sessions |-> sessions, made |-> made]
               ELSE _get_session(sessions, made, target)
        sent == fault.stage \notin EarlyStages \cup {"get_session"}
        answer == IF fault.stage = "none"
                  THEN Return([status |-> exchange.backend_status,
                               body |-> "content"])
                  ELSE on_exception(fault.exc)
    IN  [outcome |-> answer.outcome, value |-> answer.value,
         sent |-> sent, session |-> got.session,
         outbound |-> IF sent THEN copy_headers(inbound) ELSE <<>>,
         sessions |-> got.sessions, made |-> got.made]

\* ------------------------------------------------------------------ calls

NoSelect == [g |-> NoGroup, algorithm |-> AbsentAlgorithm, seen |-> FALSE,
             index |-> 0, count |-> 0, outcome |-> "none", value |-> None]

NoCall == [op |-> "none"]

NoForward == [target |-> None, inbound |-> <<>>, exchange |-> [fault |-> NoFault],
              outcome |-> "none", value |-> None, sent |-> FALSE,
              session |-> None, outbound |-> <<>>]

\* streak[name]: no call on the name yet (Fresh), k ROUND_ROBIN calls in a row
\* on group g and nothing else (k in 1..MaxStreak), or no longer followed.
Fresh == [g |-> NoGroup, k |-> 0]

Unfollowed == [g |-> NoGroup, k |-> -1]

StreakAfter(s, g, target_group, algorithm) ==
    IF /\ algorithm = "ROUND_ROBIN"
       /\ Len(get_targets(target_group)) > 0
       /\ s.k >= 0 /\ s.k < MaxStreak
       /\ s.g \in {NoGroup, g}
    THEN [g |-> g, k |-> s.k + 1]
    ELSE Unfollowed

\* What a name's entry held before the call; 0 where it had none.
IndexBefore(counters, name) ==
    IF DictHas(counters, name) THEN counters[name] ELSE 0

\* The algorithm the reference balancer is configured with: ROUND_ROBIN where
\* the balancer's own is none of the four names.
ReferenceAlgorithm(algorithm) ==
    IF algorithm \in Recognized THEN algorithm ELSE "ROUND_ROBIN"

\* The inbound header lists of the forwards of ForwardSpec and Spec.
InboundSamples ==
    { <<>>,
      << <<H_Host, "v1">>, <<H_CONNECTION, "v1">>, <<H_Authorization, "v2">> >> }

Threads == {"t1", "t2"}

NoFrame == [op |-> "none"]

Init ==
    /\ groups = InitialGroups
    /\ round_robin_counters = EmptyDict
    /\ _sessions = EmptyDict
    /\ selected = NoSelect
    /\ forwarded = NoForward
    /\ streak = [n \in GroupNames |-> Fresh]
    /\ last_count = EmptyDict
    /\ created = 0
    /\ issued = {}
    /\ reference_counters = EmptyDict
    /\ reference_selected = NoSelect
    /\ called = NoCall
    /\ pc = [t \in Threads |-> "idle"]
    /\ frame = [t \in Threads |-> NoFrame]

\* balancer.select_target(groups[g], request) with the configuration naming
\* `algorithm`, run to its end; the reference balancer gets the same call.
SelectTarget(g, algorithm) ==
    \E r \in {select_target(round_robin_counters, groups[g], algorithm)},
       ref \in {select_target(reference_counters, groups[g],
                              ReferenceAlgorithm(algorithm))},
       name \in {groups[g].name} :
        /\ round_robin_counters' = r.counters
        /\ selected' = [g |-> g, algorithm |-> algorithm,
                        seen |-> DictHas(round_robin_counters, name),
                        index |-> IndexBefore(round_robin_counters, name),
                        count |-> IndexBefore(last_count, name),
                        outcome |-> r.outcome, value |-> r.value]
        /\ reference_counters' = ref.counters
        /\ reference_selected' = [g |-> g, algorithm |-> algorithm,
                                  seen |-> DictHas(reference_counters, name),
                                  index |-> IndexBefore(reference_counters, name),
                                  count |-> IndexBefore(last_count, name),
                                  outcome |-> ref.outcome, value |-> ref.value]
        /\ streak' = [streak EXCEPT ![name] = StreakAfter(@, g, groups[g], algorithm)]
        /\ last_count' = IF UsesRoundRobin(groups[g], algorithm)
                         THEN DictSet(last_count, name, Len(get_targets(groups[g])))
                         ELSE last_count
        /\ forwarded' = NoForward
        /\ called' = NoCall
        /\ UNCHANGED <<groups, _sessions, created, issued, pc, frame>>

\* balancer.forward_request(target, request, path), run to its end, for a
\* request with the headers `inbound`, in the environment `exchange`.
ForwardRequest(target, inbound, exchange) ==
    \E r \in {forward_request(_sessions, created, target, inbound, exchange)} :
        /\ _sessions' = r.sessions
        /\ created' = r.made
        /\ issued' = IF r.sent THEN issued \cup {host_port(target)} ELSE issued
        /\ forwarded' = [target |-> target, inbound |-> inbound,
                         exchange |-> exchange, outcome |-> r.outcome,
                         value |-> r.value, sent |-> r.sent,
                         session |-> r.session, outbound |-> r.outbound]
        /\ selected' = NoSelect
        /\ reference_selected' = NoSelect
        /\ called' = NoCall
        /\ UNCHANGED <<groups, round_robin_counters, streak, last_count,
                       reference_counters, pc, frame>>

\* group.get_targets() on the object g.
GetTargets(g) ==
    /\ g \in DOMAIN groups
    /\ called' = [op |-> "get_targets", g |-> g,
                  value |-> get_targets(groups[g])]
    /\ selected' = NoSelect
    /\ reference_selected' = NoSelect
    /\ forwarded' = NoForward
    /\ UNCHANGED <<groups, round_robin_counters, _sessions, streak, last_count,
                   created, issued, reference_counters, pc, frame>>

\* group.get_weight(hostname) on the object g.
GetWeight(g, hostname) ==
    /\ g \in DOMAIN groups
    /\ called' = [op |-> "get_weight", g |-> g, hostname |-> hostname,
                  value |-> get_weight(groups[g], hostname)]
    /\ selected' = NoSelect
    /\ reference_selected' = NoSelect
    /\ forwarded' = NoForward
    /\ UNCHANGED <<groups, round_robin_counters, _sessions, streak, last_count,
                   created, issued, reference_counters, pc, frame>>

\* group.get_weighted_target_list() on the object g.
GetWeightedTargetList(g) ==
    /\ g \in DOMAIN groups
    /\ \E r \in {get_weighted_target_list(groups[g])} :
          /\ called' = [op |-> "get_weighted_target_list", g |-> g,
                        value |-> r.value]
          /\ groups' = [groups EXCEPT ![g].targets = r.targets]
    /\ selected' = NoSelect
    /\ reference_selected' = NoSelect
    /\ forwarded' = NoForward
    /\ UNCHANGED <<round_robin_counters, _sessions, streak, last_count,
                   created, issued, reference_counters, pc, frame>>

\* The hostnames get_weight is asked about.
AskedHostnames == {HOST_api_local, HOST_web_local}

SelectNext ==
    \E g \in GroupIds, algorithm \in Algorithms : SelectTarget(g, algorithm)

ForwardNext ==
    \E target \in AllTargets, inbound \in InboundSamples, exchange \in Exchanges :
        ForwardRequest(target, inbound, exchange)

\* The forwards of Spec: every target, with an answer, a failure before the
\* session is looked up and a failure of the outbound request.
JointExchanges ==
    { [fault |-> NoFault, backend_status |-> 200],
      [fault |-> [stage |-> "query_string", exc |-> "UnicodeDecodeError"]],
      [fault |-> [stage |-> "request", exc |-> "ReadTimeout"]] }

Next ==
    \/ \E g \in GroupIds, algorithm \in Algorithms : SelectTarget(g, algorithm)
    \/ \E target \in AllTargets, exchange \in JointExchanges :
          ForwardRequest(target, <<>>, exchange)
    \/ \E g \in GroupIds : GetTargets(g)
    \/ \E g \in GroupIds, hostname \in AskedHostnames : GetWeight(g, hostname)
    \/ \E g \in GroupIds : GetWeightedTargetList(g)

\* The state after construction, with no run of calls followed by streak.
JointInit ==
    /\ groups = InitialGroups
    /\ round_robin_counters = EmptyDict
    /\ _sessions = EmptyDict
    /\ selected = NoSelect
    /\ forwarded = NoForward
    /\ streak = [n \in GroupNames |-> Unfollowed]
    /\ last_count = EmptyDict
    /\ created = 0
    /\ issued = {}
    /\ reference_counters = EmptyDict
    /\ reference_selected = NoSelect
    /\ called = NoCall
    /\ pc = [t \in Threads |-> "idle"]
    /\ frame = [t \in Threads |-> NoFrame]

\* Calls on the balancer and on the groups, one after another.
Spec == JointInit /\ [][Next]_vars

\* select_target calls, one after another.
SelectSpec == Init /\ [][SelectNext]_vars

\* forward_request calls, one after another.
ForwardSpec == Init /\ [][ForwardNext]_vars

\* ---------------------------------------------------------------- threads
\* Request threads calling select_target on one balancer.  A thread runs one
\* statement of _round_robin at a step; between two steps the other thread
\* may run (the code holds no lock around lines 80-90).

\* The calls the threads make.
ConcGroups == {"g1", "g2"}

ConcAlgorithms == {"ROUND_ROBIN", "WEIGHTED"}

AllIdle == \A t \in Threads : pc[t] = "idle"

\* Lines 44-64 and 77: the call up to the first statement of _round_robin,
\* or to its return when it does not get there.
CallSelect(t, g, algorithm) ==
    /\ pc[t] = "idle"
    /\ IF UsesRoundRobin(groups[g], algorithm)
       THEN /\ pc' = [pc EXCEPT ![t] = "rr_check"]
            /\ frame' = [frame EXCEPT ![t] =
                  [op |-> "select", g |-> g, algorithm |-> algorithm,
                   group_name |-> groups[g].name,
                   targets |-> get_targets(groups[g])]]
       ELSE \E r \in {select_target(round_robin_counters, groups[g], algorithm)} :
            /\ pc' = pc
            /\ frame' = [frame EXCEPT ![t] =
                  [op |-> "select", g |-> g, algorithm |-> algorithm,
                   outcome |-> r.outcome, value |-> r.value]]
    /\ streak' = [streak EXCEPT ![groups[g].name] =
                     StreakAfter(@, g, groups[g], algorithm)]
    /\ UNCHANGED <<called, groups, round_robin_counters, _sessions, selected, forwarded,
                   last_count, created, issued, reference_counters,
                   reference_selected>>

\* Line 80: if group_name not in self.round_robin_counters
RRCheck(t) ==
    /\ pc[t] = "rr_check"
    /\ pc' = [pc EXCEPT ![t] =
                 IF DictHas(round_robin_counters, frame[t].group_name)
                 THEN "rr_read" ELSE "rr_create"]
    /\ UNCHANGED <<called, groups, round_robin_counters, _sessions, selected, forwarded,
                   streak, last_count, created, issued, reference_counters,
                   reference_selected, frame>>

\* Line 81: self.round_robin_counters[group_name] = 0
RRCreate(t) ==
    /\ pc[t] = "rr_create"
    /\ round_robin_counters' =
          DictSet(round_robin_counters, frame[t].group_name, 0)
    /\ last_count' = DictSet(last_count, frame[t].group_name,
                             Len(frame[t].targets))
    /\ pc' = [pc EXCEPT ![t] = "rr_read"]
    /\ UNCHANGED <<called, groups, _sessions, selected, forwarded, streak, created,
                   issued, reference_counters, reference_selected, frame>>

\* Lines 84-87: index = self.round_robin_counters[group_name], and the target
\* picked with it.
RRRead(t) ==
    /\ pc[t] = "rr_read"
    /\ \E index \in {round_robin_counters[frame[t].group_name]} :
          frame' = [frame EXCEPT ![t] =
             [op |-> "select", g |-> frame[t].g,
              algorithm |-> frame[t].algorithm,
              group_name |-> frame[t].group_name,
              targets |-> frame[t].targets, index |-> index,
              target |-> rr_pick(frame[t].targets, index).value]]
    /\ pc' = [pc EXCEPT ![t] = "rr_write"]
    /\ UNCHANGED <<called, groups, round_robin_counters, _sessions, selected, forwarded,
                   streak, last_count, created, issued, reference_counters,
                   reference_selected>>

\* Lines 90-92: the counter is written from the index read, and the target
\* returned.
RRWrite(t) ==
    /\ pc[t] = "rr_write"
    /\ round_robin_counters' =
          DictSet(round_robin_counters, frame[t].group_name,
                  rr_next(frame[t].targets, frame[t].index))
    /\ last_count' = DictSet(last_count, frame[t].group_name,
                             Len(frame[t].targets))
    /\ frame' = [frame EXCEPT ![t] =
          [op |-> "select", g |-> frame[t].g, algorithm |-> frame[t].algorithm,
           outcome |-> "returned", value |-> frame[t].target]]
    /\ pc' = [pc EXCEPT ![t] = "idle"]
    /\ UNCHANGED <<called, groups, _sessions, selected, forwarded, streak, created,
                   issued, reference_counters, reference_selected>>

ConcSelectNext ==
    \E t \in Threads :
        \/ \E g \in ConcGroups, algorithm \in ConcAlgorithms :
              CallSelect(t, g, algorithm)
        \/ RRCheck(t)
        \/ RRCreate(t)
        \/ RRRead(t)
        \/ RRWrite(t)

\* select_target calls of two threads, interleaved.
ConcSelectSpec == Init /\ [][ConcSelectNext]_vars

\* Request threads calling forward_request on one balancer.  A thread runs one
\* statement of _get_session at a step (the code holds no lock around lines
\* 106-119), then sends its request.

\* The forwards the threads make: two Targets of one ip:port and one of
\* another, answered or timing out.
ConcTargets == {ApiA, ApiB, ApiC}

ConcExchanges ==
    { [fault |-> NoFault, backend_status |-> 200],
      [fault |-> [stage |-> "request", exc |-> "ReadTimeout"]] }

\* Lines 135-154 and 105: the call up to the first statement of _get_session.
CallForward(t, target, exchange) ==
    /\ pc[t] = "idle"
    /\ pc' = [pc EXCEPT ![t] = "gs_check"]
    /\ frame' = [frame EXCEPT ![t] =
          [op |-> "forward", target |-> target, exchange |-> exchange,
           host_port |-> host_port(target)]]
    /\ UNCHANGED <<called, groups, round_robin_counters, _sessions, selected,
                   forwarded, streak, last_count, created, issued,
                   reference_counters, reference_selected>>

\* Line 106: if host_port not in self._sessions
GSCheck(t) ==
    /\ pc[t] = "gs_check"
    /\ pc' = [pc EXCEPT ![t] =
                 IF ~DictHas(_sessions, frame[t].host_port)
                 THEN "gs_create" ELSE "gs_return"]
    /\ UNCHANGED <<called, groups, round_robin_counters, _sessions, selected,
                   forwarded, streak, last_count, created, issued,
                   reference_counters, reference_selected, frame>>

\* Lines 107-117: session = requests.Session(), with its adapter mounted.
GSCreate(t) ==
    /\ pc[t] = "gs_create"
    /\ created' = created + 1
    /\ frame' = [frame EXCEPT ![t] =
          [op |-> "forward", target |-> frame[t].target,
           exchange |-> frame[t].exchange, host_port |-> frame[t].host_port,
           session |-> Session(created + 1)]]
    /\ pc' = [pc EXCEPT ![t] = "gs_store"]
    /\ UNCHANGED <<called, groups, round_robin_counters, _sessions, selected,
                   forwarded, streak, last_count, issued, reference_counters,
                   reference_selected>>

\* Line 118: self._sessions[host_port] = session
GSStore(t) ==
    /\ pc[t] = "gs_store"
    /\ _sessions' = DictSet(_sessions, frame[t].host_port, frame[t].session)
    /\ pc' = [pc EXCEPT ![t] = "gs_return"]
    /\ UNCHANGED <<called, groups, round_robin_counters, selected, forwarded,
                   streak, last_count, created, issued, reference_counters,
                   reference_selected, frame>>

\* Line 119 and 154: session = self._sessions[host_port], read from the cache.
GSReturn(t) ==
    /\ pc[t] = "gs_return"
    /\ frame' = [frame EXCEPT ![t] =
          [op |-> "forward", target |-> frame[t].target,
           exchange |-> frame[t].exchange, host_port |-> frame[t].host_port,
           session |-> _sessions[frame[t].host_port]]]
    /\ pc' = [pc EXCEPT ![t] = "fw_request"]
    /\ UNCHANGED <<called, groups, round_robin_counters, _sessions, selected,
                   forwarded, streak, last_count, created, issued,
                   reference_counters, reference_selected>>

\* Lines 156-179: the request is sent on the session, and the call returns
\* the backend's response or the error response.
FWRequest(t) ==
    /\ pc[t] = "fw_request"
    /\ \E answer \in {IF frame[t].exchange.fault.stage = "none"
                      THEN Return([status |-> frame[t].exchange.backend_status,
                                   body |-> "content"])
                      ELSE on_exception(frame[t].exchange.fault.exc)} :
          frame' = [frame EXCEPT ![t] =
             [op |-> "forward", target |-> frame[t].target,
              exchange |-> frame[t].exchange, host_port |-> frame[t].host_port,
              session |-> frame[t].session, sent |-> TRUE,
              outcome |-> answer.outcome, value |-> answer.value]]
    /\ issued' = issued \cup {frame[t].host_port}
    /\ pc' = [pc EXCEPT ![t] = "idle"]
    /\ UNCHANGED <<called, groups, round_robin_counters, _sessions, selected,
                   forwarded, streak, last_count, created, reference_counters,
                   reference_selected>>

ConcForwardNext ==
    \E t \in Threads :
        \/ \E target \in ConcTargets, exchange \in ConcExchanges :
              CallForward(t, target, exchange)
        \/ GSCheck(t)
        \/ GSCreate(t)
        \/ GSStore(t)
        \/ GSReturn(t)
        \/ FWRequest(t)

\* forward_request calls of two threads, interleaved.
ConcForwardSpec == Init /\ [][ConcForwardNext]_vars

\* The inbound header lists of HeaderSpec: up to MaxHeaders headers, no name
\* twice (the headers of a request come from the keys of its WSGI environ).
HeaderLists ==
    UNION { { h \in [1..n -> HeaderNames \X HeaderValues] :
                \A i, j \in 1..n : i # j => h[i][1] # h[j][1] } :
            n \in 0..MaxHeaders }

HeaderInit ==
    /\ groups = InitialGroups
    /\ round_robin_counters = EmptyDict
    /\ _sessions = EmptyDict
    /\ selected = NoSelect
    /\ \E inbound \in HeaderLists :
          forwarded = [NoForward EXCEPT !.inbound = inbound]
    /\ streak = [n \in GroupNames |-> Fresh]
    /\ last_count = EmptyDict
    /\ created = 0
    /\ issued = {}
    /\ reference_counters = EmptyDict
    /\ reference_selected = NoSelect
    /\ called = NoCall
    /\ pc = [t \in Threads |-> "idle"]
    /\ frame = [t \in Threads |-> NoFrame]

\* Lines 139-142 of forward_request on the request's headers.
CopyHeaders ==
    /\ forwarded.outcome = "none"
    /\ forwarded' = [forwarded EXCEPT !.outcome = "copied",
                                      !.outbound = copy_headers(forwarded.inbound)]
    /\ UNCHANGED <<called, groups, round_robin_counters, _sessions, selected, streak,
                   last_count, created, issued, reference_counters,
                   reference_selected, pc, frame>>

\* The header copy of forward_request, on every inbound header list.
HeaderSpec == HeaderInit /\ [][CopyHeaders]_vars

\* ------------------------------------------------------------ construction
\* TargetGroup(name, targets_str, weights) on bounded spec strings.

\* The characters of the spec strings tried in full.
SpecAlphabet == {"a", "1", ".", ":", "/", ",", " "}

\* Every spec string of up to MaxSpecLen characters of SpecAlphabet.
ShortSpecs == UNION {[1..n -> SpecAlphabet] : n \in 0..MaxSpecLen}

\* Spec strings of deployments.
SPEC_a_com_b_com == <<"a", ".", "c", "o", "m", ":", "8", "0", "8", "0", "/", "s", "v", "c", ",", "b", ".", "c", "o", "m", "/">>

SPEC_api == <<"a", "p", "i", ".", "l", "o", "c", "a", "l", ":", "8", "0", "8", "0", "/", "s", "v", "c", ",", "1", "0", ".", "0", ".", "0", ".", "1", ":", "8", "0", "8", "0", "/">>

SPEC_padded == <<" ", "w", "e", "b", ".", "l", "o", "c", "a", "l", ":", "8", "0", "/", "x", "/", "y", " ", ",", " ", ",", "a", ":", "1", ":", "8", "1", ",", ",">>

SPEC_bad_port == <<"a", ":", "8", "o", ",", "1", "0", ".", "0", ".", "0", ".", "1", ":", "8", "0">>

SPEC_unknown_host == <<"n", "o", "h", "o", "s", "t", ":", "8", "0", ",", "1", "0", ".", "0", ".", "0", ".", "1", ":", "8", "0">>

SPEC_empty_label == <<"a", ".", ".", "b", ":", "8", "0", ",", "1", "0", ".", "0", ".", "0", ".", "1", ":", "8", "0">>

SPEC_port_zero == <<"1", "0", ".", "0", ".", "0", ".", "1", ":", "0">>

SPEC_port_negative == <<"1", "0", ".", "0", ".", "0", ".", "1", ":", "-", "1">>

SPEC_port_large == <<"1", "0", ".", "0", ".", "0", ".", "1", ":", "7", "0", "0", "0", "0">>

SampleSpecs ==
    {SPEC_a_com_b_com, SPEC_api, SPEC_padded, SPEC_bad_port, SPEC_unknown_host,
     SPEC_empty_label, SPEC_port_zero, SPEC_port_negative, SPEC_port_large}

\* A constructor call not yet run.
Pending(name, targets_str, weights) ==
    [op |-> "TargetGroup", name |-> name, targets_str |-> targets_str,
     weights |-> weights, outcome |-> "none", value |-> None,
     entries |-> <<>>]

\* The state before TargetGroup("g", targets_str) runs; no object exists yet.
ParseInit ==
    /\ groups = EmptyDict
    /\ \E targets_str \in ShortSpecs \cup SampleSpecs :
          called = Pending("g", targets_str, None)
    /\ round_robin_counters = EmptyDict
    /\ _sessions = EmptyDict
    /\ selected = NoSelect
    /\ forwarded = NoForward
    /\ streak = [n \in GroupNames |-> Fresh]
    /\ last_count = EmptyDict
    /\ created = 0
    /\ issued = {}
    /\ reference_counters = EmptyDict
    /\ reference_selected = NoSelect
    /\ pc = [t \in Threads |-> "idle"]
    /\ frame = [t \in Threads |-> NoFrame]

\* The constructor call, run to its end: the object g1, or the exception.
Construct ==
    /\ called.op = "TargetGroup"
    /\ called.outcome = "none"
    /\ \E r \in {TargetGroup_new(called.name, called.targets_str,
                                 called.weights)} :
          /\ called' = [called EXCEPT !.outcome = r.outcome,
                                      !.value = r.value,
                                      !.entries = logical_entries(called.targets_str)]
          /\ groups' = IF r.outcome = "returned"
                       THEN DictSet(groups, "g1", r.value) ELSE groups
    /\ UNCHANGED <<round_robin_counters, _sessions, selected, forwarded, streak,
                   last_count, created, issued, reference_counters,
                   reference_selected, pc, frame>>

\* The constructor on every spec string.
ParseSpec == ParseInit /\ [][Construct]_vars

\* Spec strings of weighted groups: a name of two addresses, names met more
\* than once, an address literal, and no entry at all.
WSPEC_a == <<"a", ":", "8", "0">>

WSPEC_a_web == <<"a", ":", "8", "0", ",", "w", "e", "b", ".", "l", "o", "c", "a", "l">>

WSPEC_web_a_web == <<"w", "e", "b", ".", "l", "o", "c", "a", "l", ",", "a", ":", "8", "0", ",", "w", "e", "b", ".", "l", "o", "c", "a", "l", ":", "8", "1">>

WSPEC_literal_a == <<"1", "0", ".", "0", ".", "0", ".", "1", ",", "a">>

WSPEC_a_twice == <<"a", ":", "8", "0", ",", "a", ":", "8", "1">>

WeightedSpecs ==
    {WSPEC_a, WSPEC_a_web, WSPEC_web_a_web, WSPEC_literal_a, WSPEC_a_twice,
     SPEC_api, <<>>}

\* The hostnames a weights map may name.
WeightedHostnames == {HOST_a, HOST_web_local, IP_10_0_0_1}

\* The weights arguments: none, or a map of some hostnames to 1..MaxWeight.
WeightsArguments ==
    {None} \cup UNION {[names -> 1..MaxWeight] : names \in SUBSET WeightedHostnames}

WeightInit ==
    /\ groups = EmptyDict
    /\ \E targets_str \in WeightedSpecs, weights \in WeightsArguments :
          called = Pending("g", targets_str, weights)
    /\ round_robin_counters = EmptyDict
    /\ _sessions = EmptyDict
    /\ selected = NoSelect
    /\ forwarded = NoForward
    /\ streak = [n \in GroupNames |-> Fresh]
    /\ last_count = EmptyDict
    /\ created = 0
    /\ issued = {}
    /\ reference_counters = EmptyDict
    /\ reference_selected = NoSelect
    /\ pc = [t \in Threads |-> "idle"]
    /\ frame = [t \in Threads |-> NoFrame]

WeightNext ==
    \/ Construct
    \/ \E hostname \in WeightedHostnames : GetWeight("g1", hostname)
    \/ GetWeightedTargetList("g1")

\* A group built with or without weights, then asked for its weights and its
\* weighted list.
WeightSpec == WeightInit /\ [][WeightNext]_vars

\* ----------------------------------------------------------------- claims

\* The targets of the group of the latest select_target call.
SelectedTargets == get_targets(groups[selected.g])

\* C1: from a fresh counter, the k-th of k consecutive ROUND_ROBIN
\* select_target calls on a group of N >= 1 candidates, with no other
\* select_target call under that name in between, returns candidate
\* (k - 1) mod N: candidates[0], ..., candidates[N-1] in order, then
\* candidates[0] again.
C1_RoundRobinOrder ==
    \A g \in GroupIds :
        LET targets == get_targets(groups[g])
            run == streak[groups[g].name]
        IN  ( /\ selected.g = g
              /\ selected.algorithm = "ROUND_ROBIN"
              /\ Len(targets) >= 1
              /\ run.g = g /\ run.k >= 1 )
            => /\ selected.outcome = "returned"
               /\ selected.value = targets[((run.k - 1) % Len(targets)) + 1]

\* Call N + 1 = 4 on the three candidates of g1 gives the first one again.
C1_Witness ==
    /\ selected.g = "g1" /\ selected.algorithm = "ROUND_ROBIN"
    /\ streak["api"] = [g |-> "g1", k |-> 4]
    /\ selected.value = ApiA

\* C2 as claimed: the read, the selection and the write of one call are not
\* interleaved with another's.  So, once the calls made have all returned: k
\* ROUND_ROBIN calls on a group of N candidates, the only calls under its
\* name since the counter was fresh, leave the counter at k mod N; and when
\* those are N calls, one by each of N threads, they returned N different
\* candidates.
C2_AtomicIncrement ==
    AllIdle
    => \A g \in GroupIds :
          LET targets == get_targets(groups[g])
              name == groups[g].name
              run == streak[name]
          IN  (run.g = g /\ run.k >= 1)
              => /\ DictHas(round_robin_counters, name)
                 /\ round_robin_counters[name] = run.k % Len(targets)
                 /\ ( /\ run.k = Len(targets)
                      /\ Cardinality(Threads) = Len(targets)
                      /\ \A t \in Threads :
                            /\ frame[t].op = "select"
                            /\ frame[t].g = g
                            /\ frame[t].algorithm = "ROUND_ROBIN" )
                    => {frame[t].value : t \in Threads}
                          = {targets[i] : i \in 1..Len(targets)}

\* C3 as claimed: every stored index is below the number of candidates of
\* every group of that name.
C3_IndexBelowGroupCount ==
    \A name \in DOMAIN round_robin_counters :
        \A g \in GroupIds :
            groups[g].name = name
            => /\ 0 <= round_robin_counters[name]
               /\ round_robin_counters[name] < Len(get_targets(groups[g]))

\* C3, amended: every stored index is in [0, count) for count the number of
\* candidates of the group the latest round-robin selection under that name
\* was made on; a name has an entry only once such a selection was made, and
\* the selection that creates the entry acts on index 0 (it returns
\* candidates[0] and leaves 1 mod count).
C3_IndexBelowLatestCount ==
    /\ DOMAIN round_robin_counters = DOMAIN last_count
    /\ \A name \in DOMAIN round_robin_counters :
          /\ 0 <= round_robin_counters[name]
          /\ round_robin_counters[name] < last_count[name]
    /\ ( /\ selected.g # NoGroup
         /\ UsesRoundRobin(groups[selected.g], selected.algorithm)
         /\ ~selected.seen )
       => /\ selected.value = SelectedTargets[1]
          /\ round_robin_counters[groups[selected.g].name]
                = 1 % Len(SelectedTargets)

\* The counter of "api" is at 2 after selections on the three candidates of
\* g1, and the first selection under "web" has just created its entry.
C3_Witness ==
    /\ DictHas(round_robin_counters, "api")
    /\ round_robin_counters["api"] = 2
    /\ last_count["api"] = 3
    /\ selected.g = "g3" /\ ~selected.seen
    /\ round_robin_counters["web"] = 0

\* C4: select_target on a group with no target returns None, whatever the
\* algorithm, and raises nothing.
C4_EmptyGivesNone ==
    (selected.g # NoGroup /\ Len(SelectedTargets) = 0)
    => (selected.outcome = "returned" /\ selected.value = None)

C4_Witness ==
    /\ selected.g = "g4" /\ selected.algorithm = "ROUND_ROBIN"
    /\ selected.outcome = "returned" /\ selected.value = None

\* C5: under WEIGHTED, STICKY or LRT a select_target call on a group with a
\* candidate returns candidates[0], whatever the counter of the name holds.
C5_StubsGiveFirst ==
    ( /\ selected.g # NoGroup
      /\ selected.algorithm \in {"WEIGHTED", "STICKY", "LRT"}
      /\ Len(SelectedTargets) >= 1 )
    => (selected.outcome = "returned" /\ selected.value = SelectedTargets[1])

\* A STICKY call on g1 while the counter of its name points at the third
\* candidate.
C5_Witness ==
    /\ selected.g = "g1" /\ selected.algorithm = "STICKY"
    /\ DictHas(round_robin_counters, "api")
    /\ round_robin_counters["api"] = 2
    /\ selected.value = ApiA

\* C6: a balancer whose algorithm is none of the four names and the
\* reference balancer, which gets the same calls with ROUND_ROBIN in its
\* place, return the same and hold the same counters after every call.
C6_UnrecognizedIsRoundRobin ==
    /\ reference_counters = round_robin_counters
    /\ reference_selected = selected

\* The third call on g1 with no algorithm configured gives the third
\* candidate, as it does for the reference.
C6_Witness ==
    /\ selected.g = "g1" /\ selected.algorithm = AbsentAlgorithm
    /\ selected.value = ApiC /\ reference_selected.value = ApiC
    /\ round_robin_counters["api"] = 0 /\ reference_counters["api"] = 0

\* C7: over forward_request calls made one after another, as many Sessions
\* are made as there are ip:port keys an outbound request was sent to, the
\* cache holds exactly those keys, and every outbound request goes through
\* the Session cached for its key (so the one the first forward made).
C7_OneSessionPerKey ==
    /\ created = Cardinality(issued)
    /\ DOMAIN _sessions = issued
    /\ forwarded.sent
       => /\ DictHas(_sessions, host_port(forwarded.target))
          /\ forwarded.session = _sessions[host_port(forwarded.target)]

\* A forward to 10.0.0.1:8080 goes through the first Session made, after a
\* second key got a Session of its own.
C7_Witness ==
    /\ forwarded.target = ApiC /\ forwarded.sent
    /\ forwarded.session = Session(1)
    /\ created = 2 /\ Cardinality(issued) = 2

\* The exceptions that are a timeout, and those that are a connection failure.
TimeoutFailures == {"ReadTimeout", "ConnectTimeout"}

ConnectionFailures == {"ConnectionError", "ConnectTimeout"}

\* C8: a forward that fails returns 504 when the failure is a timeout (a
\* connect timeout included) and 502 for a connection failure and for every
\* other failure.
C8_FailureStatus ==
    (forwarded.outcome # "none" /\ forwarded.exchange.fault.stage # "none")
    => /\ forwarded.outcome = "returned"
       /\ forwarded.exchange.fault.exc \in TimeoutFailures
          => forwarded.value.status = 504
       /\ forwarded.exchange.fault.exc \in ConnectionFailures \ TimeoutFailures
          => forwarded.value.status = 502
       /\ forwarded.exchange.fault.exc \notin TimeoutFailures \cup ConnectionFailures
          => forwarded.value.status = 502

C8_Witness ==
    /\ forwarded.exchange.fault.exc = "ConnectTimeout"
    /\ forwarded.outcome = "returned"
    /\ forwarded.value.status = 504

\* C9: every forward_request call returns a response: the backend's status
\* when nothing failed, 502 or 504 when a statement of the call failed; no
\* exception leaves the call.
C9_AlwaysAResponse ==
    forwarded.outcome # "none"
    => /\ forwarded.outcome = "returned"
       /\ IF forwarded.exchange.fault.stage = "none"
          THEN forwarded.value.status = forwarded.exchange.backend_status
          ELSE forwarded.value.status \in {502, 504}

\* The body could not be read: the caller gets a 502.
C9_Witness ==
    /\ forwarded.exchange.fault.stage = "get_data"
    /\ forwarded.outcome = "returned"
    /\ forwarded.value.status = 502

\* C10: the copied headers hold no header named connection, keep-alive or
\* transfer-encoding in any casing, and hold every other inbound header
\* with its value.
C10_HopByHopDropped ==
    forwarded.outcome = "copied"
    => /\ \A i \in 1..Len(forwarded.outbound) :
             forwarded.outbound[i][1] \notin HopByHopNames
       /\ \A i \in 1..Len(forwarded.inbound) :
             forwarded.inbound[i][1] \in EndToEndNames
             => \E j \in 1..Len(forwarded.outbound) :
                   forwarded.outbound[j] = forwarded.inbound[i]

C10_Witness ==
    /\ forwarded.outcome = "copied"
    /\ forwarded.inbound = << <<H_keepALIVE, "v1">>, <<H_XConnection, "v2">> >>
    /\ forwarded.outbound = << <<H_XConnection, "v2">> >>

\* The constructor call has run to its end.
Constructed == called.op = "TargetGroup" /\ called.outcome # "none"

\* The port text of the spec, the text after the last ':' of its address,
\* reads as an integer, or the address has no ':'.
PortReadable(spec) ==
    \E k \in 0..Len(spec) :
        /\ ~Contains(SubSeq(spec, 1, k), "/")
        /\ k = Len(spec) \/ spec[k + 1] = "/"
        /\ \A j \in 1..k :
              spec[j] = ":" /\ ~Contains(SubSeq(spec, j + 1, k), ":")
                  => int(SubSeq(spec, j + 1, k)).outcome = "returned"

\* entry is the (host, port, base_uri) of the spec text: the address is the
\* k characters before the first '/', the base_uri is '/' and what follows
\* that '/', and the address is cut at its last ':'.
EntryOfSpec(spec, entry) ==
    \E k \in 0..Len(spec) :
        /\ ~Contains(SubSeq(spec, 1, k), "/")
        /\ k = Len(spec) \/ spec[k + 1] = "/"
        /\ entry.base_uri = IF k + 1 >= Len(spec) THEN <<"/">>
                            ELSE <<"/">> \o SubSeq(spec, k + 2, Len(spec))
        /\ IF Contains(SubSeq(spec, 1, k), ":")
           THEN \E j \in 1..k :
                   /\ spec[j] = ":"
                   /\ ~Contains(SubSeq(spec, j + 1, k), ":")
                   /\ entry.hostname = SubSeq(spec, 1, j - 1)
                   /\ int(SubSeq(spec, j + 1, k)) = Return(entry.port)
           ELSE entry.hostname = SubSeq(spec, 1, k) /\ entry.port = 80

\* The trimmed, non-empty, comma-separated pieces of the constructor's spec
\* string whose port text reads as an integer.
ReadableSpecs ==
    SelectSeq(target_specs_of(called.targets_str),
              LAMBDA spec : spec # <<>> /\ PortReadable(spec))

\* C11: the logical entries of a spec string are, in entry order, one per
\* trimmed non-empty comma-separated piece (with a readable port), each the
\* (host, port, base_uri) cut at the first '/' and then at the last ':' of the
\* address, with port 80 where the address has no ':' and base_uri '/' where
\* nothing follows a '/'; "a.com:8080/svc,b.com/" gives (a.com,8080,/svc)
\* then (b.com,80,/).
C11_LogicalEntries ==
    Constructed =>
        /\ Len(called.entries) = Len(ReadableSpecs)
        /\ \A i \in 1..Len(called.entries) :
              EntryOfSpec(ReadableSpecs[i], called.entries[i])
        /\ called.targets_str = SPEC_a_com_b_com =>
              called.entries =
                  << [hostname |-> <<"a", ".", "c", "o", "m">>, port |-> 8080, base_uri |-> URI_svc],
                     [hostname |-> <<"b", ".", "c", "o", "m">>, port |-> 80, base_uri |-> URI_root] >>

\* " web.local:80/x/y , ,a:1:81,," was parsed: two entries, the second cut at
\* the last ':' of "a:1:81".
C11_Witness ==
    /\ Constructed
    /\ called.targets_str = SPEC_padded
    /\ called.entries =
          << [hostname |-> HOST_web_local, port |-> 80,
              base_uri |-> <<"/", "x", "/", "y">>],
             [hostname |-> <<"a", ":", "1">>, port |-> 81, base_uri |-> URI_root] >>

\* The hostname is an address literal or a name the resolver knows.
Resolvable(hostname) == inet_aton(hostname) \/ hostname \in DOMAIN DnsRecords

\* The Targets of the entries whose hostname resolves, in entry order.
RECURSIVE TargetsOfResolvable(_)
TargetsOfResolvable(entries) ==
    IF entries = <<>> THEN <<>>
    ELSE IF Resolvable(Head(entries).hostname)
    THEN targets_of_entry(Head(entries)).value
         \o TargetsOfResolvable(Tail(entries))
    ELSE TargetsOfResolvable(Tail(entries))

\* C12: for every spec string the constructor returns, and the group holds
\* exactly the Targets of the entries with a readable port and a hostname that
\* resolves, in entry order: an entry that fails contributes nothing and takes
\* nothing from its siblings.
C12_FailuresAreLocal ==
    Constructed =>
        /\ called.outcome = "returned"
        /\ called.value.targets = TargetsOfResolvable(called.entries)

\* C15: every Target of a constructed group has a port in 1..65535.
C15_PortInRange ==
    Constructed /\ called.outcome = "returned" =>
        \A i \in 1..Len(called.value.targets) :
            called.value.targets[i].port \in 1..65535

\* How often x is in the list.
Occurrences(list, x) == Cardinality({i \in 1..Len(list) : list[i] = x})

\* Where the hostname is first met in the target list.
FirstPlace(targets, hostname) ==
    CHOOSE i \in 1..Len(targets) :
        /\ targets[i].hostname = hostname
        /\ \A j \in 1..(i - 1) : targets[j].hostname # hostname

\* The weight the map gives the hostname, 1 where it names none.
WeightOf(tg, hostname) ==
    IF hostname \in DOMAIN tg.weights THEN tg.weights[hostname] ELSE 1

\* The sum, over the hostnames, of the weight times the number of Targets of
\* the hostname (one Target per address the hostname's entry resolved to).
RECURSIVE WeightedLength(_, _)
WeightedLength(tg, hostnames) ==
    IF hostnames = {} THEN 0
    ELSE LET hostname == CHOOSE h \in hostnames : TRUE
         IN  WeightOf(tg, hostname)
                 * Cardinality({i \in 1..Len(tg.targets) :
                                   tg.targets[i].hostname = hostname})
             + WeightedLength(tg, hostnames \ {hostname})

\* The latest call was get_weighted_target_list.
AskedWeightedList == called.op = "get_weighted_target_list"

\* C13: for a group built with weights, the weighted list holds every Target
\* w times per time it is in the target list, w the weight of its hostname
\* (1 where the map does not name it), nothing else, the hostnames in
\* contiguous blocks in the order first met in the target list, and its length
\* is the sum of w times the number of Targets of each hostname; a hostname
\* of two addresses and weight 3 gives 6 entries.
C13_WeightedExpansion ==
    AskedWeightedList /\ groups[called.g]._weights_provided =>
        LET tg == groups[called.g]
            weighted_list == called.value
            places == 1..Len(weighted_list)
        IN  /\ \A i \in places :
                  \E k \in 1..Len(tg.targets) : tg.targets[k] = weighted_list[i]
            /\ \A k \in 1..Len(tg.targets) :
                  Occurrences(weighted_list, tg.targets[k]) =
                      WeightOf(tg, tg.targets[k].hostname)
                          * Occurrences(tg.targets, tg.targets[k])
            /\ \A i, j \in places :
                  i < j => FirstPlace(tg.targets, weighted_list[i].hostname)
                               <= FirstPlace(tg.targets, weighted_list[j].hostname)
            /\ Len(weighted_list) =
                  WeightedLength(tg, {tg.targets[k].hostname :
                                         k \in 1..Len(tg.targets)})
            /\ /\ Len(tg.targets) = 2
               /\ tg.targets[1].hostname = tg.targets[2].hostname
               /\ WeightOf(tg, tg.targets[1].hostname) = 3
               => Len(weighted_list) = 6

\* The weighted list of "web.local,a:80,web.local:81" with weight 3 for a,
\* weight 2 for web.local: the two Targets of web.local twice, then the two
\* of a three times.
C13_Witness ==
    /\ AskedWeightedList
    /\ groups[called.g]._weights_provided
    /\ Len(groups[called.g].targets) = 4
    /\ groups[called.g].weights = [h \in {HOST_a, HOST_web_local} |->
                                      IF h = HOST_a THEN 3 ELSE 2]
    /\ Len(called.value) = 10
    /\ called.value[1].hostname = HOST_web_local
    /\ called.value[5].hostname = HOST_a
    /\ called.value[5] = called.value[7]

\* C14: a group built without a weights argument has the flag unset and gives
\* the empty weighted list, whatever its targets, while get_weight answers 1
\* for every hostname; a group built with an empty weights map has the flag
\* set and gives every Target once.
C14_FlagDecides ==
    /\ Constructed /\ called.outcome = "returned" =>
          called.value._weights_provided = (called.weights # None)
    /\ AskedWeightedList /\ ~groups[called.g]._weights_provided =>
          called.value = <<>>
    /\ called.op = "get_weight" /\ ~groups[called.g]._weights_provided =>
          called.value = 1
    /\ /\ AskedWeightedList
       /\ groups[called.g]._weights_provided
       /\ groups[called.g].weights = EmptyDict
       => Len(called.value) = Len(groups[called.g].targets)

\* A group of four Targets built without weights was asked for its weighted
\* list and gave none.
C14_Witness ==
    /\ AskedWeightedList
    /\ ~groups[called.g]._weights_provided
    /\ Len(groups[called.g].targets) = 4
    /\ called.value = <<>>

\* C16: after any calls of get_targets, get_weight, get_weighted_target_list,
\* select_target and forward_request, every group holds the Targets it held
\* right after construction, in the same order.
C16_TargetsNeverChange ==
    \A g \in GroupIds : groups[g].targets = InitialGroups[g].targets

\* After selections and forwards, the weighted group g1 was asked for its
\* weighted list (two Targets of weight 2 and one of weight 1) and still holds
\* its three Targets.
C16_Witness ==
    /\ AskedWeightedList
    /\ called.g = "g1"
    /\ Len(called.value) = 5
    /\ DictHas(round_robin_counters, "api")
    /\ DictHas(_sessions, host_port(ApiA))
    /\ groups["g1"].targets = <<ApiA, ApiB, ApiC>>

\* The ip:port keys a forward was made to: those a request was sent to, and
\* those of the calls now running.
AttemptedKeys ==
    issued \cup {frame[t].host_port : t \in {u \in Threads : frame[u].op = "forward"}}

\* C17: no key leaves round_robin_counters or the session cache and no cached
\* session is put in place of another; a name has a counter only if a
\* round-robin selection was made on a non-empty group of that name, and an
\* ip:port has a session only if a forward was made to it.
C17_KeysOnlyGrow ==
    /\ [](/\ DOMAIN round_robin_counters \subseteq DOMAIN last_count
          /\ DOMAIN _sessions \subseteq AttemptedKeys)
    /\ [][/\ DOMAIN round_robin_counters \subseteq DOMAIN round_robin_counters'
          /\ DOMAIN _sessions \subseteq DOMAIN _sessions'
          /\ \A key \in DOMAIN _sessions : _sessions'[key] = _sessions[key]]_vars

\* C18: a round-robin call under a name whose latest round-robin call saw
\* another number of candidates (two groups of one name, of 3 and of 2
\* Targets) returns candidates[index mod count] for the stored index and the
\* count of this call, and stores (index + 1) mod count.
C18_CountChanged ==
    /\ selected.g # NoGroup
    /\ UsesRoundRobin(groups[selected.g], selected.algorithm)
    /\ selected.seen
    /\ selected.count # Len(SelectedTargets)
    => /\ selected.outcome = "returned"
       /\ selected.value =
             SelectedTargets[(selected.index % Len(SelectedTargets)) + 1]
       /\ round_robin_counters[groups[selected.g].name] =
             (selected.index + 1) % Len(SelectedTargets)

\* The index was 2 after calls on the group of 3; the call on the group of 2
\* of the same name returned candidates[0] and stored 1.
C18_Witness ==
    /\ selected.g = "g2"
    /\ selected.algorithm = "ROUND_ROBIN"
    /\ selected.seen
    /\ selected.index = 2
    /\ selected.count = 3
    /\ selected.value = ApiA
    /\ round_robin_counters["api"] = 1

\* The entry of the name in the counters is the same before and after.
SameEntry(name) ==
    /\ DictHas(round_robin_counters', name) = DictHas(round_robin_counters, name)
    /\ DictHas(round_robin_counters, name) =>
          round_robin_counters'[name] = round_robin_counters[name]

\* C19: select_target on a group leaves the session cache and the counter of
\* every other name as they were, and leaves all counters as they were when
\* the group is empty or the algorithm is WEIGHTED, STICKY or LRT;
\* forward_request leaves round_robin_counters as it was.
C19_SelectFrame ==
    [][/\ selected'.g # NoGroup =>
             /\ _sessions' = _sessions
             /\ \A name \in GroupNames \ {groups[selected'.g].name} :
                   SameEntry(name)
             /\ \/ get_targets(groups[selected'.g]) = <<>>
                \/ selected'.algorithm \in {"WEIGHTED", "STICKY", "LRT"}
                => round_robin_counters' = round_robin_counters
       /\ forwarded'.outcome # "none" =>
             round_robin_counters' = round_robin_counters]_vars

\* A round-robin call on the web group moved its counter while the api
\* counter stood at 2 and two sessions were cached.
C19_Witness ==
    /\ selected.g = "g3"
    /\ selected.algorithm = "ROUND_ROBIN"
    /\ selected.outcome = "returned"
    /\ round_robin_counters = [n \in {"api", "web"} |-> IF n = "api" THEN 2 ELSE 0]
    /\ Cardinality(DOMAIN _sessions) = 2

\* C20: with forwards of two threads interleaved, once no call is running
\* every Session made is the cached one of its key (one per key), and the
\* request of every finished call went out on the cached Session of its key.
C20_OneHandleUnderThreads ==
    /\ AllIdle => created = Cardinality(DOMAIN _sessions)
    /\ \A t \in Threads :
          pc[t] = "idle" /\ frame[t].op = "forward" =>
              frame[t].session = _sessions[frame[t].host_port]

====
